---- MODULE Spec2Model ----
(***************************************************************************)
(* MongoDB token store for OAuth 2.0: Create, the three lookups and the    *)
(* three removals, in its                                                  *)
(* two source variants:                                                    *)
(*   "oauth2mongo"  src/oauth2mongo.go       (package oauth2mongo)         *)
(*   "mongo"        src/unnamed/part_000     (package mongo)               *)
(* The database is modelled as three collections of documents with a      *)
(* unique _id, typed BSON values, and a TTL index on ExpiredAt.            *)
(***************************************************************************)
EXTENDS Integers, Sequences, FiniteSets, TLC

VARIABLES
    variant,   \* which source file the running store was built from
    db,        \* [basic, access, refresh]: the three collections (sets of documents)
    nextID,    \* number of object ids generated so far (objectid.New())
    now,       \* clock of the database, in steps of ClockSeconds(1) since the epoch
    alive,     \* FALSE once log.Fatal has ended the process
    calls,     \* the Create calls in flight: process -> local state of the call
    injected,  \* TRUE once the backend has failed a request (connection failure)
    last       \* the most recent completed operation with its arguments and results

vars == <<variant, db, nextID, now, alive, calls, injected, last>>

----------------------------------------------------------------------------
(* Bounds of the model *)

\* number of operations that generate an object id (Create calls) in Spec
MaxCreates == 1
\* number of clock steps in Spec
MaxTicks == 1

(* Program constants *)

\* ExpireAfterSeconds(1) of the three TTL indexes
ExpireAfterSeconds == 1
\* time.Millisecond, in nanoseconds
Millisecond == 1000000
\* nanoseconds in a second, as time.Unix(sec, nsec) normalises nsec
Second == 1000000000

Variants == {"oauth2mongo", "mongo"}
Procs == {1, 2}
Nil == "nil"

----------------------------------------------------------------------------
(* time.Time and time.Duration.  A Time is kept as Go keeps it, seconds    *)
(* and nanoseconds since the epoch; a Duration is kept the same way so     *)
(* that no value leaves the 32-bit integers of the model checker.          *)

Time(s, ns) == [sec |-> s, nsec |-> ns]

\* t.Add(d)
TimeAdd(t, d) ==
    LET ns == t.nsec + d.nsec
    IN  [sec |-> t.sec + d.sec + (ns \div Second), nsec |-> ns % Second]

\* t.Second(): the second offset within the minute, 0..59
TimeSecond(t) == t.sec % 60

\* t.UnixNano() / int64(time.Millisecond), for t at or after the epoch
UnixNanoPerMilli(t) == t.sec * (Second \div Millisecond) + (t.nsec \div Millisecond)

\* time.Unix(0, nsec)
TimeUnix0(nsec) == [sec |-> nsec \div Second, nsec |-> nsec % Second]

\* a time.Time written as a BSON datetime: milliseconds since the epoch
BsonDateTime(t) == t.sec * 1000 + (t.nsec \div Millisecond)

\* full-timestamp order, t.Before(u)
TimeBefore(t, u) == t.sec < u.sec \/ (t.sec = u.sec /\ t.nsec < u.nsec)

----------------------------------------------------------------------------
(* BSON values: a type tag and a value *)

BString(s) == [t |-> "String", v |-> s]
BObjectID(n) == [t |-> "ObjectID", v |-> ToString(n)]

\* objectid.New() gone wrong: the same identifier on every call
NewObjectIDRepeated(n) == 1

\* objectid.New(): the n-th identifier generated; .Hex() of it is a string
NewObjectID(n) == n + 1
Hex(oid) == ToString(oid)

\* json.Marshal(info) / json.Unmarshal(data, &tm): set of decoded tokens, or an error
Marshal(info) == [kind |-> "json", doc |-> {info}]
NoBytes == [kind |-> "empty", doc |-> {}]
Unmarshal(data) ==
    IF data.kind = "json"
    THEN [ti |-> data.doc, err |-> Nil]
    ELSE [ti |-> {}, err |-> "unexpected end of JSON input"]

----------------------------------------------------------------------------
(* The database driver: collections are sets of documents, _id is unique  *)

EmptyDB == [basic |-> {}, access |-> {}, refresh |-> {}]

\* Collection.InsertOne: fails on a backend failure or a duplicate _id
InsertOneDoc(coll, doc, fail) ==
    IF fail
    THEN [coll |-> coll, err |-> "connection failure"]
    ELSE IF \E d \in coll : d.id = doc.id
         THEN [coll |-> coll, err |-> "duplicate key"]
         ELSE [coll |-> coll \cup {doc}, err |-> Nil]

\* Collection.DeleteOne / DeleteMany with the filter {_id: id}
DeleteByID(coll, id, fail) ==
    IF fail
    THEN [coll |-> coll, err |-> "connection failure"]
    ELSE [coll |-> {d \in coll : d.id # BString(id)}, err |-> Nil]

\* Collection.FindOne with the filter {_id: id}; the error surfaces in Decode
FindByID(coll, id, fail) ==
    IF fail
    THEN [doc |-> {}, err |-> "connection failure"]
    ELSE LET hit == {d \in coll : d.id = BString(id)}
         IN  IF hit = {} THEN [doc |-> {}, err |-> "ErrNoDocuments"]
                         ELSE [doc |-> hit, err |-> Nil]

\* Decode into a Go string field: the driver's struct decoder fills the field
\* from a BSON string and leaves it at its zero value for any other BSON type
DecodeString(bv) == IF bv.t = "String" THEN bv.v ELSE ""

\* Decode of the Data field: into basicData.Data, a string in oauth2mongo and
\* a []byte in mongo (which a BSON string does not fill)
DecodeData(v, bv) ==
    IF v = "oauth2mongo" /\ bv.t = "String" THEN bv.v ELSE NoBytes

\* the TTL index: a document expires ExpireAfterSeconds after its ExpiredAt
ClockSeconds(n) == n * 1500
Expired(d, n) == d.ExpiredAt + ExpireAfterSeconds * 1000 <= ClockSeconds(n) * 1000

----------------------------------------------------------------------------
(* Create *)

\* the ExpiredAt value written for the instant t
ExpiredAt(v, t) ==
    IF v = "oauth2mongo"
    THEN BsonDateTime(TimeUnix0(UnixNanoPerMilli(t)))
    ELSE UnixNanoPerMilli(t)

CodeExpiry(info) == TimeAdd(info.CodeCreateAt, info.CodeExpiresIn)

\* aexp and rexp as Create computes them
Expiries(info) ==
    LET aexp0 == TimeAdd(info.AccessCreateAt, info.AccessExpiresIn)
        rexp  == IF info.Refresh # ""
                 THEN TimeAdd(info.RefreshCreateAt, info.RefreshExpiresIn)
                 ELSE aexp0
        aexp  == IF info.Refresh # "" /\ TimeSecond(aexp0) > TimeSecond(rexp)
                 THEN rexp ELSE aexp0
    IN  [aexp |-> aexp, rexp |-> rexp]

\* the generated identifier as stored: a hex string in oauth2mongo, an ObjectID in mongo
BasicKey(v, oid) == IF v = "oauth2mongo" THEN BString(Hex(oid)) ELSE BObjectID(oid)

\* the inserts a Create call performs, in order
HasStep(v, info, pc) ==
    CASE pc = "code"    -> info.Code # ""
      [] pc = "basic"   -> TRUE
      [] pc = "access"  -> v = "mongo" \/ info.Access # ""
      [] pc = "refresh" -> info.Refresh # ""
      [] OTHER          -> TRUE

StepOrder == <<"code", "basic", "access", "refresh", "done">>

RECURSIVE FirstStepFrom(_, _, _)
FirstStepFrom(v, info, i) ==
    IF HasStep(v, info, StepOrder[i]) THEN StepOrder[i] ELSE FirstStepFrom(v, info, i + 1)

StepIndex(pc) == CHOOSE i \in 1..Len(StepOrder) : StepOrder[i] = pc
NextPc(v, info, pc) == FirstStepFrom(v, info, StepIndex(pc) + 1)

IdleCall == [pc |-> "idle", info |-> {}, err |-> Nil, id |-> 0]
NewCall(v, info) == [pc |-> FirstStepFrom(v, info, 1), info |-> {info}, err |-> Nil, id |-> 0]
InfoOf(c) == CHOOSE i \in c.info : TRUE

\* the collection the refresh record is written to
RefreshTarget(v) == IF v = "oauth2mongo" THEN "refresh" ELSE "access"

\* the document and the collection of the insert at pc
StepDoc(v, c, oid) ==
    LET info == InfoOf(c)
        jv   == Marshal(info)
        e    == Expiries(info)
    IN  CASE c.pc = "code" ->
               [cname |-> "basic",
                doc |-> [id |-> BString(info.Code), Data |-> BString(jv),
                         ExpiredAt |-> ExpiredAt(v, CodeExpiry(info))]]
          [] c.pc = "basic" ->
               [cname |-> "basic",
                doc |-> [id |-> BasicKey(v, oid), Data |-> BString(jv),
                         ExpiredAt |-> ExpiredAt(v, e.rexp)]]
          [] c.pc = "access" ->
               [cname |-> "access",
                doc |-> [id |-> BString(info.Access), BasicID |-> BasicKey(v, oid),
                         ExpiredAt |-> ExpiredAt(v, e.aexp)]]
          [] c.pc = "refresh" ->
               [cname |-> RefreshTarget(v),
                doc |-> [id |-> BString(info.Refresh), BasicID |-> BasicKey(v, oid),
                         ExpiredAt |-> ExpiredAt(v, e.rexp)]]

\* what a failed insert does to the call: oauth2mongo's InsertOne ends the
\* process with log.Fatal; mongo records the error and goes on
OnInsertError(v, c, err) ==
    IF v = "oauth2mongo"
    THEN [alive |-> FALSE, call |-> c]
    ELSE [alive |-> TRUE,
          call |-> [c EXCEPT !.err = err, !.pc = NextPc(v, InfoOf(c), c.pc)]]

\* one insert of a Create call, on the state S = [db, nextID, alive, injected]
CreateStep(v, S, c, fail) ==
    LET oid  == IF c.pc = "basic" THEN NewObjectID(S.nextID) ELSE c.id
        c1   == [c EXCEPT !.id = oid]
        ins  == StepDoc(v, c1, oid)
        r    == InsertOneDoc(S.db[ins.cname], ins.doc, fail)
        out  == IF r.err # Nil
                THEN OnInsertError(v, c1, r.err)
                ELSE [alive |-> TRUE, call |-> [c1 EXCEPT !.pc = NextPc(v, InfoOf(c), c.pc)]]
    IN  [db       |-> [S.db EXCEPT ![ins.cname] = r.coll],
         nextID   |-> IF c.pc = "basic" THEN S.nextID + 1 ELSE S.nextID,
         alive    |-> out.alive,
         injected |-> S.injected \/ fail,
         call     |-> out.call]

\* a whole Create call: its inserts one after the other, the one at failAt
\* meeting a backend failure
RECURSIVE CreateRun(_, _, _, _)
CreateRun(v, S, c, failAt) ==
    IF c.pc = "done" \/ ~S.alive
    THEN [db |-> S.db, nextID |-> S.nextID, alive |-> S.alive,
          injected |-> S.injected, call |-> c]
    ELSE LET r == CreateStep(v, S, c, c.pc = failAt)
         IN  CreateRun(v, [db |-> r.db, nextID |-> r.nextID, alive |-> r.alive,
                           injected |-> r.injected], r.call, failAt)

----------------------------------------------------------------------------
(* Lookups.  A result is [ti, err, fatal]: ti the set holding the token    *)
(* info returned (empty for nil), err the error (Nil for none), fatal      *)
(* whether log.Fatal ended the process instead of returning.               *)

\* getData without its ErrNoDocuments case: a missing document is an error
getDataNotFoundIsError(v, D, basicID, fail) ==
    LET f == FindByID(D.basic, basicID, fail)
    IN  IF f.err # Nil
        THEN IF v = "oauth2mongo"
             THEN [ti |-> {}, err |-> Nil, fatal |-> TRUE]
             ELSE [ti |-> {}, err |-> f.err, fatal |-> FALSE]
        ELSE LET bd == CHOOSE d \in f.doc : TRUE
                 u  == Unmarshal(DecodeData(v, bd.Data))
             IN  [ti |-> u.ti, err |-> u.err, fatal |-> FALSE]

getData(v, D, basicID, fail) ==
    LET f == FindByID(D.basic, basicID, fail)
    IN  IF f.err # Nil
        THEN IF f.err = "ErrNoDocuments"
             THEN [ti |-> {}, err |-> Nil, fatal |-> FALSE]
             ELSE IF v = "oauth2mongo"
                  THEN [ti |-> {}, err |-> Nil, fatal |-> TRUE]
                  ELSE [ti |-> {}, err |-> f.err, fatal |-> FALSE]
        ELSE LET bd == CHOOSE d \in f.doc : TRUE
                 u  == Unmarshal(DecodeData(v, bd.Data))
             IN  [ti |-> u.ti, err |-> u.err, fatal |-> FALSE]

getBasicID(v, D, cname, token, fail) ==
    LET f == FindByID(D[cname], token, fail)
    IN  IF f.err # Nil
        THEN IF f.err = "ErrNoDocuments"
             THEN [basicID |-> "", err |-> Nil]
             ELSE [basicID |-> "", err |-> f.err]
        ELSE LET td == CHOOSE d \in f.doc : TRUE
             IN  [basicID |-> DecodeString(td.BasicID), err |-> Nil]

\* failAt: "none", "ref" (the read of the reference record) or "data" (the
\* read of the basic record)
GetByCode(v, D, code, failAt) == getData(v, D, code, failAt = "data")

GetByToken(v, D, cname, token, failAt) ==
    LET b == getBasicID(v, D, cname, token, failAt = "ref")
    IN  IF b.err # Nil /\ b.basicID = ""
        THEN [ti |-> {}, err |-> b.err, fatal |-> FALSE]
        ELSE getData(v, D, b.basicID, failAt = "data")

GetByAccess(v, D, access, failAt) == GetByToken(v, D, "access", access, failAt)
GetByRefresh(v, D, refresh, failAt) == GetByToken(v, D, "refresh", refresh, failAt)

----------------------------------------------------------------------------
(* Inputs *)

\* code, access and refresh token of the requests the server issues: an
\* authorization code alone, an access token alone, access and refresh, all three
TokenSets ==
    { <<"c1", "", "">>, <<"c2", "", "">>, <<"", "a1", "">>, <<"c2", "a2", "">>,
      <<"", "a1", "r1">>, <<"c1", "a1", "r1">> }
Keys == {"c1", "a1", "r1", "zz"}

\* access and refresh time-to-live, in seconds; the code lives 600 seconds
TTLPairs == {<<1000, 2000>>, <<2000, 1000>>, <<1000, 1000>>}
Duration(s) == [sec |-> s, nsec |-> 0]

\* the time-to-live pairs of a request: they differ only where both expiries exist
PairsOf(k) == IF k[3] # "" THEN TTLPairs ELSE {<<1000, 1000>>}

\* the token infos the server can hand to Create at clock n
Infos(n) ==
    LET T == Time(ClockSeconds(n), 1500000)
    IN  UNION { { [Code |-> k[1], CodeCreateAt |-> T, CodeExpiresIn |-> Duration(600),
                   Access |-> k[2], AccessCreateAt |-> T,
                   AccessExpiresIn |-> Duration(p[1]),
                   Refresh |-> k[3], RefreshCreateAt |-> T,
                   RefreshExpiresIn |-> Duration(p[2])] : p \in PairsOf(k) } :
                k \in TokenSets }

FailPoints == {"none", "code", "basic", "access", "refresh"}
ReadFailPoints == {"none", "ref", "data"}

\* the record of an operation: its name, the token info handed to Create,
\* and what the caller got back
Op(name, info, ti, err) == [op |-> name, info |-> info, ti |-> ti, err |-> err]

----------------------------------------------------------------------------
(* The operations, each a whole call.  fp is the set of points at which    *)
(* the backend may fail the call ("none": it does not fail)                *)

Init ==
    /\ variant \in Variants
    /\ db = EmptyDB
    /\ nextID = 0
    /\ now = 0
    /\ alive = TRUE
    /\ calls = [p \in Procs |-> IdleCall]
    /\ injected = FALSE
    /\ last = Op("NewTokenStore", {}, {}, Nil)

CreateOp(fp) ==
    /\ alive
    /\ nextID < MaxCreates
    /\ \E info \in Infos(now), failAt \in fp :
        LET r == CreateRun(variant,
                           [db |-> db, nextID |-> nextID, alive |-> TRUE,
                            injected |-> FALSE],
                           NewCall(variant, info), failAt)
        IN  /\ db' = r.db
            /\ nextID' = r.nextID
            /\ alive' = r.alive
            /\ injected' = r.injected
            /\ last' = Op("Create", {info}, {}, r.call.err)
    /\ UNCHANGED <<variant, now, calls>>

RemoveOp(name, cname, fs) ==
    /\ alive
    /\ \E key \in Keys, fail \in fs :
        LET r == DeleteByID(db[cname], key, fail)
        IN  /\ db' = [db EXCEPT ![cname] = r.coll]
            /\ injected' = fail
            /\ last' = Op(name, {}, {}, r.err)
    /\ UNCHANGED <<variant, nextID, now, alive, calls>>

Returned(name, failAt, r) ==
    /\ alive' = ~r.fatal
    /\ injected' = (failAt # "none")
    /\ last' = Op(name, {}, r.ti, r.err)
    /\ UNCHANGED <<variant, db, nextID, now, calls>>

GetCodeOp(fp) ==
    /\ alive
    /\ \E key \in Keys, failAt \in fp \ {"ref"} :
        Returned("GetByCode", failAt, GetByCode(variant, db, key, failAt))

GetAccessOp(fp) ==
    /\ alive
    /\ \E key \in Keys, failAt \in fp :
        Returned("GetByAccess", failAt, GetByAccess(variant, db, key, failAt))

GetRefreshOp(fp) ==
    /\ alive
    /\ \E key \in Keys, failAt \in fp :
        Returned("GetByRefresh", failAt, GetByRefresh(variant, db, key, failAt))

----------------------------------------------------------------------------
(* Spec: one client calling the store with the backend reachable, the      *)
(* database purging expired documents and the clock advancing              *)

Create == CreateOp({"none"})
RemoveByCode == RemoveOp("RemoveByCode", "basic", {FALSE})
RemoveByAccess == RemoveOp("RemoveByAccess", "access", {FALSE})
RemoveByRefresh == RemoveOp("RemoveByRefresh", "refresh", {FALSE})
GetCode == GetCodeOp({"none"})
GetAccess == GetAccessOp({"none"})
GetRefresh == GetRefreshOp({"none"})

\* the TTL monitor of the database purges the expired documents of a collection
Purge ==
    /\ \E cname \in {"basic", "access", "refresh"} :
        /\ \E d \in db[cname] : Expired(d, now)
        /\ db' = [db EXCEPT ![cname] = {d \in db[cname] : ~Expired(d, now)}]
    /\ injected' = FALSE
    /\ last' = Op("Purge", {}, {}, Nil)
    /\ UNCHANGED <<variant, nextID, now, alive, calls>>

Tick ==
    /\ now < MaxTicks
    /\ now' = now + 1
    /\ injected' = FALSE
    /\ last' = Op("Tick", {}, {}, Nil)
    /\ UNCHANGED <<variant, db, nextID, alive, calls>>

Next ==
    \/ Create
    \/ RemoveByCode
    \/ RemoveByAccess
    \/ RemoveByRefresh
    \/ GetCode
    \/ GetAccess
    \/ GetRefresh
    \/ Purge
    \/ Tick

Spec == Init /\ [][Next]_vars

----------------------------------------------------------------------------
(* SpecFail: the same client with a backend that may fail a request        *)

CreateF == CreateOp(FailPoints)
GetCodeF == GetCodeOp(ReadFailPoints)
GetAccessF == GetAccessOp(ReadFailPoints)
GetRefreshF == GetRefreshOp(ReadFailPoints)

NextFail ==
    \/ CreateF
    \/ GetCodeF
    \/ GetAccessF
    \/ GetRefreshF

SpecFail == Init /\ [][NextFail]_vars

----------------------------------------------------------------------------
(* SpecConc: two Create calls running concurrently, each insert an atomic  *)
(* step, with readers looking tokens up in between                         *)

Begin(p) ==
    /\ alive
    /\ calls[p].pc = "idle"
    /\ \E info \in Infos(now) :
        calls' = [calls EXCEPT ![p] = NewCall(variant, info)]
    /\ UNCHANGED <<variant, db, nextID, now, alive, injected, last>>

InsertStep(p) ==
    /\ alive
    /\ calls[p].pc \notin {"idle", "done"}
    /\ \E fail \in BOOLEAN :
        LET r == CreateStep(variant,
                            [db |-> db, nextID |-> nextID, alive |-> alive,
                             injected |-> injected],
                            calls[p], fail)
        IN  /\ db' = r.db
            /\ nextID' = r.nextID
            /\ alive' = r.alive
            /\ injected' = r.injected
            /\ calls' = [calls EXCEPT ![p] = r.call]
    /\ UNCHANGED <<variant, now, last>>

Observed(name, r) ==
    /\ alive' = ~r.fatal
    /\ last' = Op(name, {}, r.ti, r.err)
    /\ UNCHANGED <<variant, db, nextID, now, calls, injected>>

ReadAccess ==
    /\ alive
    /\ \E key \in Keys : Observed("GetByAccess", GetByAccess(variant, db, key, "none"))

ReadRefresh ==
    /\ alive
    /\ \E key \in Keys : Observed("GetByRefresh", GetByRefresh(variant, db, key, "none"))

NextConc ==
    \/ \E p \in Procs : Begin(p)
    \/ \E p \in Procs : InsertStep(p)
    \/ ReadAccess
    \/ ReadRefresh

SpecConc == Init /\ [][NextConc]_vars

----------------------------------------------------------------------------
(* Vocabulary of the properties *)

NotFound == [ti |-> {}, err |-> Nil, fatal |-> FALSE]
Found(info) == [ti |-> {info}, err |-> Nil, fatal |-> FALSE]

Ids(coll) == {d.id : d \in coll}
TokenDocs(D) == D.access \cup D.refresh
Target(D, d) == {b \in D.basic : b.id = d.BasicID}

\* the token info a basic document carries in its Data
InfoIn(b) == CHOOSE i \in b.Data.v.doc : TRUE

\* the expiry instants of a token info, as full timestamps
AccessExpiry(info) == TimeAdd(info.AccessCreateAt, info.AccessExpiresIn)
RefreshExpiry(info) ==
    IF info.Refresh # ""
    THEN TimeAdd(info.RefreshCreateAt, info.RefreshExpiresIn)
    ELSE AccessExpiry(info)
Earlier(t, u) == IF TimeBefore(u, t) THEN u ELSE t

CodeKeyed(b) == InfoIn(b).Code # "" /\ b.id = BString(InfoIn(b).Code)

\* the step just taken is a Create call that returned no error
CreateSucceeded == last'.op = "Create" /\ last'.err = Nil /\ alive'
LookupKeys == Keys \cup {"", "zz", "1"}

----------------------------------------------------------------------------
(* C1: after a successful Create(info) with non-empty code, access and      *)
(* refresh not stored before, GetByCode, GetByAccess and GetByRefresh each  *)
(* return, without error, the token info Create serialized.                 *)
C1_CreateThenLookups ==
    [][ \A info \in last'.info :
          ( /\ CreateSucceeded
            /\ info.Code # "" /\ info.Access # "" /\ info.Refresh # ""
            /\ BString(info.Code) \notin Ids(db.basic)
            /\ BString(info.Access) \notin Ids(db.access)
            /\ BString(info.Refresh) \notin Ids(db.refresh) )
          => /\ GetByCode(variant, db', info.Code, "none") = Found(info)
             /\ GetByAccess(variant, db', info.Access, "none") = Found(info)
             /\ GetByRefresh(variant, db', info.Refresh, "none") = Found(info) ]_vars

(* C2: removal does not cascade.  RemoveByAccess(a) right after the Create  *)
(* of a request with access a and refresh r makes GetByAccess(a) not-found, *)
(* leaves GetByRefresh(r) returning the created info, and leaves the basic  *)
(* and refresh collections unchanged; every removal deletes at most one     *)
(* document, in its own collection.                                         *)
C2_RemoveDoesNotCascade ==
    [][ /\ \A info \in last.info :
             ( /\ last.op = "Create" /\ last.err = Nil
               /\ info.Access # "" /\ info.Refresh # ""
               /\ last'.op = "RemoveByAccess" /\ last'.err = Nil
               /\ BString(info.Access) \in Ids(db.access)
               /\ BString(info.Access) \notin Ids(db'.access) )
             => /\ GetByAccess(variant, db', info.Access, "none") = NotFound
                /\ GetByRefresh(variant, db', info.Refresh, "none") = Found(info)
        /\ last'.op = "RemoveByAccess" =>
             /\ db'.basic = db.basic /\ db'.refresh = db.refresh
             /\ Cardinality(db.access \ db'.access) <= 1
        /\ last'.op = "RemoveByRefresh" =>
             /\ db'.basic = db.basic /\ db'.access = db.access
             /\ Cardinality(db.refresh \ db'.refresh) <= 1
        /\ last'.op = "RemoveByCode" =>
             /\ db'.access = db.access /\ db'.refresh = db.refresh
             /\ Cardinality(db.basic \ db'.basic) <= 1 ]_vars

(* C3: with the backend reachable, a lookup whose key is missing at any     *)
(* stage returns a nil result and a nil error: GetByCode of a key with no   *)
(* basic document; GetByAccess / GetByRefresh of a key with no reference    *)
(* document, or whose reference document names a basic document that is     *)
(* gone.                                                                    *)
C3_MissingIsNotFound ==
    \A k \in LookupKeys :
        /\ BString(k) \notin Ids(db.basic)
             => GetByCode(variant, db, k, "none") = NotFound
        /\ \A cname \in {"access", "refresh"} :
             (\A d \in db[cname] : d.id = BString(k) => Target(db, d) = {})
             => GetByToken(variant, db, cname, k, "none") = NotFound

\* a lookup by access token has just returned while an access document
\* whose basic document was purged or removed is still stored
C3_Witness ==
    /\ last.op = "GetByAccess"
    /\ last.ti = {} /\ last.err = Nil
    /\ \E d \in db.access : d.id = BString("a1") /\ Target(db, d) = {}
    /\ BString("c1") \notin Ids(db.basic)

(* C4: the ExpiredAt of every document Create wrote is the expiry instant   *)
(* computed for it, in milliseconds since the epoch: code creation + code   *)
(* ttl for the code-keyed basic document, the refresh expiry (the access    *)
(* expiry without a refresh token) for the generated-key basic document and *)
(* the refresh document; so no document is due for the TTL purge before     *)
(* that instant.                                                            *)
C4_ExpiredAtIsExpiry ==
    /\ \A b \in db.basic :
         LET want == IF CodeKeyed(b) THEN CodeExpiry(InfoIn(b))
                     ELSE RefreshExpiry(InfoIn(b))
         IN  /\ b.ExpiredAt = BsonDateTime(want)
             /\ Expired(b, now) => BsonDateTime(want) <= ClockSeconds(now) * 1000
    /\ \A d \in TokenDocs(db) : \A b \in Target(db, d) :
         (InfoIn(b).Refresh # "" /\ d.id = BString(InfoIn(b).Refresh))
         => /\ d.ExpiredAt = BsonDateTime(RefreshExpiry(InfoIn(b)))
            /\ Expired(d, now) =>
                 BsonDateTime(RefreshExpiry(InfoIn(b))) <= ClockSeconds(now) * 1000

(* C5: the expiry recorded on the access document is the stamp of the       *)
(* earlier of access expiry and refresh expiry, compared as full            *)
(* timestamps (of the access expiry when there is no refresh token).        *)
C5_AccessExpiryIsEarlier ==
    \A d \in db.access : \A b \in Target(db, d) :
        (InfoIn(b).Access # "" /\ d.id = BString(InfoIn(b).Access))
        => d.ExpiredAt =
             ExpiredAt(variant, Earlier(AccessExpiry(InfoIn(b)), RefreshExpiry(InfoIn(b))))

(* C6: the basic document named by the BasicID of an access or refresh      *)
(* document expires no earlier than that document.                          *)
C6_BasicOutlivesReferences ==
    \A d \in TokenDocs(db) : \A b \in Target(db, d) : b.ExpiredAt >= d.ExpiredAt

(* C7: a backend error is surfaced to the caller: when the backend fails an *)
(* insert of Create, or a read of a lookup, the call returns a non-nil      *)
(* error and the process keeps running.                                     *)
C7_ErrorsSurfaced ==
    (injected /\ last.op \in {"Create", "GetByCode", "GetByAccess", "GetByRefresh"})
    => (alive /\ last.err # Nil)

(* C8: a successful Create(info) adds exactly: a basic document keyed by    *)
(* the code iff the code is non-empty, one basic document keyed by a fresh  *)
(* identifier, an access document keyed by the access token iff it is       *)
(* non-empty, a refresh document keyed by the refresh token iff it is       *)
(* non-empty; after an access-only Create on an empty store every           *)
(* GetByRefresh is not-found; a Create carrying only a code not stored yet  *)
(* succeeds.                                                                *)
C8_CreateWritesExactly ==
    [][ \A info \in last'.info :
          /\ CreateSucceeded =>
               LET newBasic   == db'.basic \ db.basic
                   newAccess  == db'.access \ db.access
                   newRefresh == db'.refresh \ db.refresh
               IN  /\ db.basic \subseteq db'.basic
                   /\ db.access \subseteq db'.access
                   /\ db.refresh \subseteq db'.refresh
                   /\ Cardinality({b \in newBasic : b.id # BString(info.Code)}) = 1
                   /\ {b.id : b \in {c \in newBasic : c.id = BString(info.Code)}}
                        = IF info.Code # "" THEN {BString(info.Code)} ELSE {}
                   /\ Cardinality(newBasic) = IF info.Code # "" THEN 2 ELSE 1
                   /\ Ids(newAccess) = IF info.Access # "" THEN {BString(info.Access)} ELSE {}
                   /\ Cardinality(newAccess) = IF info.Access # "" THEN 1 ELSE 0
                   /\ Ids(newRefresh) = IF info.Refresh # "" THEN {BString(info.Refresh)} ELSE {}
                   /\ Cardinality(newRefresh) = IF info.Refresh # "" THEN 1 ELSE 0
                   /\ (db = EmptyDB /\ info.Code = "" /\ info.Refresh = "")
                        => \A k \in LookupKeys :
                             GetByRefresh(variant, db', k, "none") = NotFound
          /\ ( /\ last'.op = "Create"
               /\ info.Code # "" /\ info.Access = "" /\ info.Refresh = ""
               /\ BString(info.Code) \notin Ids(db.basic) )
             => CreateSucceeded ]_vars

----------------------------------------------------------------------------
(* Concurrent Create calls *)

Begun(p) == calls[p].pc # "idle"
ConcDone == \A p \in Procs : calls[p].pc = "done"

\* the (collection, _id) pairs a Create call of info writes under its own keys
WriteKeys(v, info) ==
    { <<StepDoc(v, [NewCall(v, info) EXCEPT !.pc = s], 0).cname,
        StepDoc(v, [NewCall(v, info) EXCEPT !.pc = s], 0).doc.id>> :
      s \in {t \in {"code", "access", "refresh"} : HasStep(v, info, t)} }

NoSharedKey ==
    \A p, q \in Procs :
        (p # q /\ Begun(p) /\ Begun(q))
        => WriteKeys(variant, InfoOf(calls[p])) \cap WriteKeys(variant, InfoOf(calls[q])) = {}

\* the contents of the collections up to the generated identifiers
Contents(D) ==
    LET ref(coll) == { [id |-> d.id, target |-> {b.Data : b \in Target(D, d)},
                        ExpiredAt |-> d.ExpiredAt] : d \in coll }
    IN  [basic   |-> { [key |-> IF CodeKeyed(b) THEN b.id.v ELSE "generated",
                        Data |-> b.Data, ExpiredAt |-> b.ExpiredAt] : b \in D.basic },
         access  |-> ref(D.access),
         refresh |-> ref(D.refresh),
         count   |-> <<Cardinality(D.basic), Cardinality(D.access),
                       Cardinality(D.refresh)>>]

\* the two calls run one after the other on the empty store, p first
Sequential(p, q) ==
    LET r1 == CreateRun(variant,
                        [db |-> EmptyDB, nextID |-> 0, alive |-> TRUE, injected |-> FALSE],
                        NewCall(variant, InfoOf(calls[p])), "none")
    IN  CreateRun(variant,
                  [db |-> r1.db, nextID |-> r1.nextID, alive |-> r1.alive,
                   injected |-> FALSE],
                  NewCall(variant, InfoOf(calls[q])), "none")

NoConflict ==
    /\ alive
    /\ \A p \in Procs : calls[p].err = Nil
    /\ ConcDone => /\ Contents(db) = Contents(Sequential(1, 2).db)
                   /\ Contents(db) = Contents(Sequential(2, 1).db)

(* C9 as stated: any two concurrent Create calls, the backend not failing,  *)
(* run without a failed or lost insert, both return no error, and leave the *)
(* collections as either sequential order does.                             *)
C9_NeverConflict == ~injected => NoConflict

(* C9 as amended: two concurrent Create calls that write no common          *)
(* (collection, _id) pair, the backend not failing, run without a failed or *)
(* lost insert, both return no error, and leave the collections as either   *)
(* sequential order does.                                                   *)
C9_DisjointKeysNeverConflict == (~injected /\ NoSharedKey) => NoConflict

\* both calls, each with an access token of its own, have run to their end
C9_Witness ==
    /\ ConcDone /\ ~injected /\ NoSharedKey /\ alive
    /\ \A p \in Procs : InfoOf(calls[p]).Access # ""
    /\ Cardinality(db.basic) >= 2
    /\ Cardinality(db.access) >= 2

(* C10: every document of the access or refresh collection names, in its    *)
(* BasicID, a document present in the basic collection, in every state of   *)
(* concurrent Create calls and lookups whose inserts may fail, with no      *)
(* removal and no purge.                                                    *)
C10_ReferencesResolve == \A d \in TokenDocs(db) : Target(db, d) # {}

====
